---- MODULE Spec2Model ----
(***************************************************************************)
(* A model of vision/ocr.ipynb: the image loader and the thresholding      *)
(* cell, the walk over the cloud engine's result tree (block -> paragraph  *)
(* -> word -> symbol), the display loops, and the cells that call the      *)
(* recognition engines.                                                    *)
(*                                                                         *)
(* Python values are records tagged with their class, so that an equality  *)
(* between objects of different classes is a comparison the model can      *)
(* evaluate.  A text is a sequence of one-character strings.               *)
(***************************************************************************)
EXTENDS Integers, Sequences, FiniteSets, TLC

VARIABLES
    fs,      \* the storage the loader reads: locator -> what lies behind it
    img,     \* the notebook's global img
    pages,   \* the notebook's global pages
    out,     \* what the last cell run printed, rendered and raised
    arg,     \* function-level runs: the function called and its arguments
    ret      \* function-level runs: what the call returned

vars == <<fs, img, pages, out, arg, ret>>

\* ------------------------------------------------------------------ bounds

MaxSyms == 2     \* symbols per word
MaxWords == 2    \* words per paragraph
MaxParas == 2    \* paragraphs per block
MaxBlocks == 2   \* blocks per page
MaxCfg == 3      \* engine configurations handed to a display function
MaxPix == 2      \* pixels of an image whose thresholding is followed

\* --------------------------------------------------------- sequence helpers

SeqsUpTo(S, n) == UNION {[1..k -> S] : k \in 0..n}

RECURSIVE Join(_)
\* "".join(list): the texts of a list, one after the other, nothing between
Join(ss) == IF ss = <<>> THEN <<>> ELSE Head(ss) \o Join(Tail(ss))

RECURSIVE Flatten(_)
\* the elements of a sequence of sequences, in order
Flatten(ss) == IF ss = <<>> THEN <<>> ELSE Head(ss) \o Flatten(Tail(ss))

Map(f(_), s) == [i \in 1..Len(s) |-> f(s[i])]

\* ------------------------------------------------- the cloud result's types

\* vision.enums.TextAnnotation.DetectedBreak.BreakType
BreakType ==
    [UNKNOWN |-> 0, SPACE |-> 1, SURE_SPACE |-> 2, EOL_SURE_SPACE |-> 3,
     HYPHEN |-> 4, LINE_BREAK |-> 5]
BreakTypes == {BreakType[n] : n \in DOMAIN BreakType}

\* TextAnnotation.DetectedBreak is a message with two fields
DetectedBreaks == [type : BreakTypes, is_prefix : BOOLEAN]

\* what reading an unset message field gives: the default instance
DefaultBreak == [type |-> BreakType.UNKNOWN, is_prefix |-> FALSE]

\* TextAnnotation.TextProperty, with the presence bit of its message field
Properties ==
    {[has_detected_break |-> FALSE, detected_break |-> DefaultBreak]}
    \cup {[has_detected_break |-> TRUE, detected_break |-> d] : d \in DetectedBreaks}

Chars == {"a", "b"}

Symbols == [text : {<<c>> : c \in Chars}, property : Properties]

Point(x, y) == [x |-> x, y |-> y]

\* a bounding polygon: four corner points
Box(x, y) == [vertices |-> <<Point(x, y), Point(x + 1, y), Point(x + 1, y + 1), Point(x, y + 1)>>]

\* -------------------------------------------------------- Python's equality

PyInt(n) == [cls |-> "int", val |-> n]
PyMessage(m) == [cls |-> "DetectedBreak", val |-> m]

\* a == b where a is a protobuf message: Message.__eq__ answers for another
\* message of the same descriptor only; for anything else both sides give
\* NotImplemented and Python falls back to identity, which is False
PyEq(a, b) == a.cls = b.cls /\ a.val = b.val

\* message.HasField('detected_break')
HasField(property, name) == name = "detected_break" /\ property.has_detected_break

\* ------------------------------------------------------- text reconstruction

\* a get_symbol_text that ignores the detected break
get_symbol_text_drop_break(symbol) == symbol.text

get_symbol_text(symbol) ==
    LET text == symbol.text IN
    IF HasField(symbol.property, "detected_break")
    THEN IF PyEq(PyMessage(symbol.property.detected_break), PyInt(BreakType.LINE_BREAK))
         THEN text \o <<"\n">>
         ELSE text \o <<" ">>
    ELSE text

get_word_text(word) == Join(Map(get_symbol_text, word.symbols))

\* a get_paragraph_text that stops after the first word
get_paragraph_text_first_word(para) ==
    IF para.words = <<>> THEN <<>> ELSE get_word_text(para.words[1])

get_paragraph_text(para) == Join(Map(get_word_text, para.words))

get_block_text(block) == Join(Map(get_paragraph_text, block.paragraphs))

\* ------------------------------------------------------------------- images

\* a decoded raster: px is the sequence of its pixels, each <<b, g, r>>;
\* shapes is what has been drawn onto it since it was decoded, in order
Ndarray(px) == [kind |-> "ndarray", px |-> px, shapes |-> <<>>]

\* Python's None, and a name no cell has bound yet
None == [kind |-> "None"]
Unbound == [kind |-> "unbound"]

\* Image objects live in a heap (a sequence of objects); a variable of the
\* code holds an index into it, so that two names for one object are one
\* index and a drawing through either is seen through both.

\* an assignment _img = img instead of a copy: the same object
ndarray_copy_alias(heap, ref) == [heap |-> heap, ref |-> ref]

\* img.copy(): a new object with the same content
ndarray_copy(heap, ref) == [heap |-> Append(heap, heap[ref]), ref |-> Len(heap) + 1]

\* cv2.polylines(img, [pts], True, (255, 0, 0), 2): draws onto img in place
cv2_polylines(heap, ref, pts) ==
    [heap EXCEPT ![ref].shapes = Append(@, [shape |-> "polylines", pts |-> pts])]

\* cv2.rectangle(img, p1, p2, (255, 0, 0), 2): draws onto img in place
cv2_rectangle(heap, ref, p1, p2) ==
    [heap EXCEPT ![ref].shapes = Append(@, [shape |-> "rectangle", pts |-> <<p1, p2>>])]

add_bounding_box(heap, ref, bb) ==
    cv2_polylines(heap, ref, [i \in 1..Len(bb) |-> <<bb[i].x, bb[i].y>>])

\* None has no method copy: img.copy() raises AttributeError
HasCopy(heap, ref) == heap[ref].kind = "ndarray"

\* ------------------------------------------------- traversal at one level
\* The state of the loops is [heap, texts]; _imgg is the index of the copy.

\* a traversal that ended in an exception returns nothing
Raised(heap, exc) == [heap |-> heap, texts |-> <<>>, _img |-> 0, raised |-> exc]

RECURSIVE for_word_in_words(_, _, _)
for_word_in_words(st, words, _img) ==
    IF words = <<>> THEN st
    ELSE for_word_in_words(
            [heap |-> add_bounding_box(st.heap, _img, Head(words).bounding_box.vertices),
             texts |-> st.texts \o <<get_word_text(Head(words))>>],
            Tail(words), _img)

RECURSIVE for_para_in_paragraphs_words(_, _, _)
for_para_in_paragraphs_words(st, paragraphs, _img) ==
    IF paragraphs = <<>> THEN st
    ELSE for_para_in_paragraphs_words(
            for_word_in_words(st, Head(paragraphs).words, _img),
            Tail(paragraphs), _img)

RECURSIVE for_block_in_blocks_words(_, _, _)
for_block_in_blocks_words(st, blocks, _img) ==
    IF blocks = <<>> THEN st
    ELSE for_block_in_blocks_words(
            for_para_in_paragraphs_words(st, Head(blocks).paragraphs, _img),
            Tail(blocks), _img)

get_google_words(heap, page, im) ==
    IF ~HasCopy(heap, im) THEN Raised(heap, "AttributeError")
    ELSE LET c == ndarray_copy(heap, im)
             st == for_block_in_blocks_words([heap |-> c.heap, texts |-> <<>>], page.blocks, c.ref)
         IN [heap |-> st.heap, texts |-> st.texts, _img |-> c.ref, raised |-> "none"]

\* a paragraph loop that leaves after its first round
for_para_in_paragraphs_first_only(st, paragraphs, _img) ==
    IF paragraphs = <<>> THEN st
    ELSE [heap |-> add_bounding_box(st.heap, _img, Head(paragraphs).bounding_box.vertices),
          texts |-> st.texts \o <<get_paragraph_text(Head(paragraphs))>>]

RECURSIVE for_para_in_paragraphs(_, _, _)
for_para_in_paragraphs(st, paragraphs, _img) ==
    IF paragraphs = <<>> THEN st
    ELSE for_para_in_paragraphs(
            [heap |-> add_bounding_box(st.heap, _img, Head(paragraphs).bounding_box.vertices),
             texts |-> st.texts \o <<get_paragraph_text(Head(paragraphs))>>],
            Tail(paragraphs), _img)

RECURSIVE for_block_in_blocks_paragraphs(_, _, _)
for_block_in_blocks_paragraphs(st, blocks, _img) ==
    IF blocks = <<>> THEN st
    ELSE for_block_in_blocks_paragraphs(
            for_para_in_paragraphs(st, Head(blocks).paragraphs, _img),
            Tail(blocks), _img)

get_google_paragraphs(heap, page, im) ==
    IF ~HasCopy(heap, im) THEN Raised(heap, "AttributeError")
    ELSE LET c == ndarray_copy(heap, im)
             st == for_block_in_blocks_paragraphs([heap |-> c.heap, texts |-> <<>>], page.blocks, c.ref)
         IN [heap |-> st.heap, texts |-> st.texts, _img |-> c.ref, raised |-> "none"]

RECURSIVE for_block_in_blocks(_, _, _)
for_block_in_blocks(st, blocks, _img) ==
    IF blocks = <<>> THEN st
    ELSE for_block_in_blocks(
            [heap |-> add_bounding_box(st.heap, _img, Head(blocks).bounding_box.vertices),
             texts |-> st.texts \o <<get_block_text(Head(blocks))>>],
            Tail(blocks), _img)

get_google_blocks(heap, page, im) ==
    IF ~HasCopy(heap, im) THEN Raised(heap, "AttributeError")
    ELSE LET c == ndarray_copy(heap, im)
             st == for_block_in_blocks([heap |-> c.heap, texts |-> <<>>], page.blocks, c.ref)
         IN [heap |-> st.heap, texts |-> st.texts, _img |-> c.ref, raised |-> "none"]

GoogleFuncs == {"get_google_blocks", "get_google_paragraphs", "get_google_words"}

\* func(page, im) for a function passed by name
CallFunc(func, heap, page, im) ==
    CASE func = "get_google_blocks" -> get_google_blocks(heap, page, im)
      [] func = "get_google_paragraphs" -> get_google_paragraphs(heap, page, im)
      [] func = "get_google_words" -> get_google_words(heap, page, im)

\* ------------------------------------------------------------ display loops

\* plt.subplots(1, n) (squeeze=True): one Axes object for n = 1, an array of
\* n Axes for n > 1; no grid has 0 columns
plt_subplots(nrows, ncols) ==
    IF nrows * ncols = 0 THEN [cls |-> "ValueError", len |-> 0]
    ELSE IF nrows * ncols = 1 THEN [cls |-> "AxesSubplot", len |-> 1]
    ELSE [cls |-> "ndarray", len |-> nrows * ncols]

\* zip(a, axs) needs axs to be iterable
Iterable(x) == x.cls = "ndarray"

Min(a, b) == IF a < b THEN a ELSE b

\* what the figure shows when it is rendered: each axis' title and the
\* content, at that time, of the image object handed to imshow
Render(heap, axes) ==
    [i \in 1..Len(axes) |-> [title |-> axes[i].title, image |-> heap[axes[i].image]]]

RECURSIVE for_page_ax(_, _, _, _, _, _)
\* the loop of display_google_results from the i-th pair of zip(pages, axs) on
for_page_ax(st, pgs, n, i, im, func) ==
    IF i > n \/ st.raised # "none" THEN st
    ELSE LET r == CallFunc(func, st.heap, pgs[i].page, im) IN
         IF r.raised # "none"
         THEN [st EXCEPT !.raised = r.raised]
         ELSE for_page_ax(
                 [heap |-> r.heap, raised |-> "none", calls |-> st.calls,
                  printed |-> Append(st.printed, [name |-> pgs[i].name, texts |-> r.texts]),
                  axes |-> Append(st.axes, [title |-> pgs[i].name, image |-> r._img])],
                 pgs, n, i + 1, im, func)

\* what a display call leaves behind: the heap, the exception that ended it
\* (or "none"), the recognition calls it made, what it printed, the figure
Display(st) ==
    [heap |-> st.heap, raised |-> st.raised, calls |-> st.calls,
     printed |-> st.printed, figure |-> Render(st.heap, st.axes)]

NoDisplay(heap, exc) ==
    [heap |-> heap, raised |-> exc, calls |-> <<>>, printed |-> <<>>, figure |-> <<>>]

\* the state of a display loop before its first round
LoopStart(heap) ==
    [heap |-> heap, raised |-> "none", calls |-> <<>>, printed |-> <<>>, axes |-> <<>>]

display_google_results(heap, pgs, im, func) ==
    LET n == Len(pgs)
        axs == plt_subplots(1, n)
    IN  IF axs.cls = "ValueError" THEN NoDisplay(heap, "ValueError")
        ELSE IF ~Iterable(axs) THEN NoDisplay(heap, "TypeError")
        ELSE Display(for_page_ax(LoopStart(heap), pgs, Min(n, axs.len), 1, im, func))

\* tesseract_ocr(tesseract, img): Image.fromarray(None) raises; otherwise the
\* engine answers (answer is what it recognises in this image: the nodes of
\* the level asked for, or a failure)
tesseract_ocr(tesseract, heap, im, answer) ==
    IF heap[im].kind # "ndarray" THEN [raised |-> "AttributeError", results |-> <<>>]
    ELSE IF ~answer.ok THEN [raised |-> "RuntimeError", results |-> <<>>]
    ELSE [raised |-> "none", results |-> answer.nodes]

RECURSIVE for_r_in_iterate_level(_, _, _)
\* the inner loop of display_tesseract_results; its state is [heap, tokens]
for_r_in_iterate_level(st, results, _img) ==
    IF results = <<>> THEN st
    ELSE LET r == Head(results)
             text == r.text
             bb == r.bb
         IN for_r_in_iterate_level(
                [heap |-> cv2_rectangle(st.heap, _img, <<bb[1], bb[2]>>, <<bb[3], bb[4]>>),
                 tokens |-> st.tokens \o <<text>>],
                Tail(results), _img)

RECURSIVE for_mode_ax(_, _, _, _, _, _)

\* the loop of display_tesseract_results from the i-th pair of
\* zip(tesseract_modes, axs) on
for_mode_ax(st, modes, answers, n, i, im) ==
    IF i > n \/ st.raised # "none" THEN st
    ELSE LET results == tesseract_ocr(modes[i].tesseract, st.heap, im, answers[i])
             calls == Append(st.calls, modes[i].name)
         IN
         IF results.raised # "none"
         THEN [st EXCEPT !.raised = results.raised, !.calls = calls]
         ELSE LET c == ndarray_copy(st.heap, im)
                  t == for_r_in_iterate_level([heap |-> c.heap, tokens |-> <<>>],
                                              results.results, c.ref)
              IN for_mode_ax(
                     [heap |-> t.heap, raised |-> "none", calls |-> calls,
                      printed |-> Append(st.printed, [name |-> modes[i].name, texts |-> t.tokens]),
                      axes |-> Append(st.axes, [title |-> modes[i].name, image |-> c.ref])],
                     modes, answers, n, i + 1, im)

display_tesseract_results(heap, modes, answers, im) ==
    LET n == Len(modes)
        axs == plt_subplots(1, n)
    IN  IF axs.cls = "ValueError" THEN NoDisplay(heap, "ValueError")
        ELSE IF ~Iterable(axs) THEN NoDisplay(heap, "TypeError")
        ELSE Display(for_mode_ax(LoopStart(heap), modes, answers, Min(n, axs.len), 1, im))

\* --------------------------------------------------------- the image loader

\* a locator is the sequence of its characters
GsPrefix == <<"g", "s", ":", "/", "/">>

startswith(s, prefix) ==
    Len(s) >= Len(prefix) /\ SubSeq(s, 1, Len(prefix)) = prefix

\* the locators tried: a readable image, a path nothing lies behind, and a
\* file whose bytes are no image; each in the bucket and on the local disk
Names == {"r", "m", "x"}
URIs == {<<n>> : n \in Names} \cup {GsPrefix \o <<n>> : n \in Names}

\* gcsfs.GCSFileSystem().open(uri, "rb") raises FileNotFoundError when no
\* object lies behind uri
gcsfs_open(store, uri) ==
    IF store[uri].state = "missing"
    THEN [raised |-> "FileNotFoundError", file |-> store[uri]]
    ELSE [raised |-> "none", file |-> store[uri]]

\* cv2.imdecode(arr, cv2.IMREAD_COLOR): None when the bytes are no image
cv2_imdecode(file) ==
    IF file.state = "image" THEN Ndarray(file.px) ELSE None

\* cv2.imread(uri, cv2.IMREAD_COLOR): None when the file cannot be read or
\* is no image; it raises nothing
cv2_imread(store, uri) ==
    IF store[uri].state = "image" THEN Ndarray(store[uri].px) ELSE None

imread_wrapper(store, uri) ==
    IF startswith(uri, GsPrefix)
    THEN LET f == gcsfs_open(store, uri) IN
         IF f.raised # "none" THEN [raised |-> f.raised, value |-> None]
         ELSE [raised |-> "none", value |-> cv2_imdecode(f.file)]
    ELSE [raised |-> "none", value |-> cv2_imread(store, uri)]

\* ------------------------------------------------------------ preprocessing

\* cv2.cvtColor(img, cv2.COLOR_BGR2GRAY) on 8-bit pixels: the fixed-point
\* weighted sum of the three channels, one channel out
cv2_cvtColor_BGR2GRAY(px) ==
    [i \in 1..Len(px) |->
        <<(px[i][1] * 1868 + px[i][2] * 9617 + px[i][3] * 4899 + 8192) \div 16384>>]

\* cv2.cvtColor(img, cv2.COLOR_GRAY2BGR): the one channel three times
cv2_cvtColor_GRAY2BGR(px) == [i \in 1..Len(px) |-> <<px[i][1], px[i][1], px[i][1]>>]

\* how many pixels of a one-channel image are <= t, and their sum
CountLE(px, t) == Cardinality({i \in 1..Len(px) : px[i][1] <= t})

RECURSIVE SumLE(_, _)
SumLE(px, t) ==
    IF px = <<>> THEN 0
    ELSE (IF Head(px)[1] <= t THEN Head(px)[1] ELSE 0) + SumLE(Tail(px), t)

\* the between-class variance of the classes <= i and > i, as a fraction
\* num/den: with n1, n2 the class sizes and s1, s2 the class sums it is, up to
\* a constant factor, (s1*n2 - s2*n1)^2 / (n1*n2); a level with an empty
\* class is skipped, which is a variance of 0 here
otsu_sigma(px, i) ==
    LET n1 == CountLE(px, i)
        n2 == Len(px) - n1
        s1 == SumLE(px, i)
        s2 == SumLE(px, 255) - s1
        d == s1 * n2 - s2 * n1
    IN  IF n1 = 0 \/ n2 = 0 THEN [num |-> 0, den |-> 1]
        ELSE [num |-> d * d, den |-> n1 * n2]

\* sigma a > sigma b
otsu_greater(a, b) == a.num * b.den > b.num * a.den

\* Otsu's threshold as cv2 selects it: max_val starts at 0 and the scan of the
\* levels 0..255 moves it to each level whose variance is greater than every
\* one before it.  The variance changes only at a level some pixel has, so
\* the scan ends on the least level, among those of the pixels, of greatest
\* variance, or stays at 0 when no variance is above 0.
otsu_threshold(px) ==
    LET levels == {px[i][1] : i \in 1..Len(px)}
        zero == [num |-> 0, den |-> 1]
        best == {t \in levels :
                    /\ otsu_greater(otsu_sigma(px, t), zero)
                    /\ \A u \in levels : ~otsu_greater(otsu_sigma(px, u), otsu_sigma(px, t))}
    IN  IF best = {} THEN 0 ELSE CHOOSE t \in best : \A u \in best : t <= u

\* cv2.THRESH_TRUNC instead of cv2.THRESH_BINARY
cv2_threshold_truncate(px, thresh, maxval) ==
    LET t == otsu_threshold(px)
    IN  [retval |-> t,
         dst |-> [i \in 1..Len(px) |-> <<IF px[i][1] > t THEN t ELSE px[i][1]>>]]

\* cv2.threshold(src, thresh, maxval, cv2.THRESH_BINARY | cv2.THRESH_OTSU):
\* thresh is ignored, Otsu's threshold is used; dst is maxval where src is
\* above it and 0 elsewhere
cv2_threshold(px, thresh, maxval) ==
    LET t == otsu_threshold(px)
    IN  [retval |-> t,
         dst |-> [i \in 1..Len(px) |-> <<IF px[i][1] > t THEN maxval ELSE 0>>]]

\* ------------------------------------------------------- the cloud engine

\* google_text_detection(img) and google_document_text_detection(img):
\* Image.fromarray(None) raises; the remote call may fail; a response without
\* a page makes pages[0] raise IndexError; otherwise the first page is
\* returned.  answer is what the endpoint does with this request.
google_text_detection(heap, im, answer) ==
    IF heap[im].kind # "ndarray" THEN [raised |-> "AttributeError", page |-> answer.page]
    ELSE IF answer.reply = "error" THEN [raised |-> "GoogleAPICallError", page |-> answer.page]
    ELSE IF answer.reply = "no pages" THEN [raised |-> "IndexError", page |-> answer.page]
    ELSE [raised |-> "none", page |-> answer.page]

google_document_text_detection(heap, im, answer) ==
    IF heap[im].kind # "ndarray" THEN [raised |-> "AttributeError", page |-> answer.page]
    ELSE IF answer.reply = "error" THEN [raised |-> "GoogleAPICallError", page |-> answer.page]
    ELSE IF answer.reply = "no pages" THEN [raised |-> "IndexError", page |-> answer.page]
    ELSE [raised |-> "none", page |-> answer.page]

\* -------------------------------------------------------------- sample data

NoBreak == [has_detected_break |-> FALSE, detected_break |-> DefaultBreak]
Break(t) == [has_detected_break |-> TRUE, detected_break |-> [type |-> t, is_prefix |-> FALSE]]
Sym(c, property) == [text |-> <<c>>, property |-> property]

Word(symbols, box) == [symbols |-> symbols, bounding_box |-> box]
Paragraph(words, box) == [words |-> words, bounding_box |-> box]
Block(paragraphs, box) == [paragraphs |-> paragraphs, bounding_box |-> box]
Page(blocks) == [blocks |-> blocks]

W0 == Word(<<>>, Box(0, 30))
W1 == Word(<<Sym("a", NoBreak), Sym("b", Break(BreakType.SPACE))>>, Box(1, 30))
W2 == Word(<<Sym("b", Break(BreakType.LINE_BREAK))>>, Box(2, 30))
W3 == Word(<<Sym("a", NoBreak)>>, Box(3, 30))
SampleWords == {W0, W1, W2, W3}

P0 == Paragraph(<<>>, Box(0, 20))
P1 == Paragraph(<<W1, W2>>, Box(1, 20))
P2 == Paragraph(<<W3, W0, W1>>, Box(2, 20))
SampleParas == {P0, P1, P2}

B0 == Block(<<>>, Box(0, 10))
B1 == Block(<<P1, P2>>, Box(1, 10))
B2 == Block(<<P0, P1>>, Box(2, 10))
B3 == Block(<<P2>>, Box(3, 10))
SampleBlocks == {B0, B1, B2, B3}

SamplePages == {Page(<<>>), Page(<<B1>>), Page(<<B3, B2>>)}

\* the page of an image that shows one printed word
OneWordPage(symbols) ==
    Page(<<Block(<<Paragraph(<<Word(symbols, Box(1, 30))>>, Box(1, 20))>>, Box(1, 10))>>)

SamplePx == << <<10, 20, 30>>, <<200, 210, 220>> >>

\* a storage where "r" is an image of pixels px, "m" is missing and "x" is
\* a file that is no image
FsWith(px) ==
    [u \in URIs |->
        CASE u[Len(u)] = "r" -> [state |-> "image", px |-> px]
          [] u[Len(u)] = "m" -> [state |-> "missing", px |-> <<>>]
          [] u[Len(u)] = "x" -> [state |-> "garbage", px |-> <<>>]]

\* what the local engine answers for an image at a level
N1 == [text |-> <<"a", "\n">>, bb |-> <<0, 0, 4, 2>>]
N2 == [text |-> <<"b", " ">>, bb |-> <<5, 0, 9, 2>>]
TessAnswers ==
    {[ok |-> FALSE, nodes |-> <<>>], [ok |-> TRUE, nodes |-> <<N1>>],
     [ok |-> TRUE, nodes |-> <<N2, N1>>]}

\* what a cloud endpoint answers
GoogleAnswers ==
    {[reply |-> "error", page |-> Page(<<>>)], [reply |-> "no pages", page |-> Page(<<>>)]}
    \cup {[reply |-> "page", page |-> pg] : pg \in {Page(<<B1>>), Page(<<B3, B2>>)}}

\* ----------------------------------------------------- the notebook's cells

tesseract_modes ==
    << [name |-> "Tesseract SINGLE BLOCK", tesseract |-> [psm |-> "SINGLE_BLOCK"]],
       [name |-> "Tesseract SPARSE TEXT", tesseract |-> [psm |-> "SPARSE_TEXT"]],
       [name |-> "Tesseract SINGLE COLUMN", tesseract |-> [psm |-> "SINGLE_COLUMN"]] >>

Levels == {"RIL.PARA", "RIL.TEXTLINE", "RIL.WORD"}

\* a global name bound to a list
List(items) == [kind |-> "list", items |-> items]

\* what a cell run leaves in out
CellOut(cell, param, answers, raised, calls, printed, figure) ==
    [cell |-> cell, param |-> param, answers |-> answers, raised |-> raised,
     calls |-> calls, printed |-> printed, figure |-> figure]

NoOut == CellOut("none", "", <<>>, "none", <<>>, <<>>, <<>>)

\* show_image(img): plt.imshow(None) raises TypeError
show_image(image) ==
    IF image.kind # "ndarray" THEN [raised |-> "TypeError", figure |-> <<>>]
    ELSE [raised |-> "none", figure |-> <<[title |-> "", image |-> image]>>]

\* the thresholding branch of the load cell; cv2.cvtColor(None, ...) raises
Thresholded(image) ==
    IF image.kind # "ndarray" THEN [raised |-> "cv2.error", value |-> image]
    ELSE LET gray == cv2_cvtColor_BGR2GRAY(image.px)
             th == cv2_threshold(gray, 0, 255)
         IN  [raised |-> "none",
              value |-> [image EXCEPT !.px = cv2_cvtColor_GRAY2BGR(th.dst)]]

\* the cell that loads img, with the toggle and the locator the user set
LoadCell(PERFORM_THRESHOLDING, uri) ==
    LET r == imread_wrapper(fs, uri)
        t == IF PERFORM_THRESHOLDING THEN Thresholded(r.value)
             ELSE [raised |-> "none", value |-> r.value]
        shown == show_image(t.value)
        param == [toggle |-> PERFORM_THRESHOLDING, uri |-> uri]
    IN  /\ IF r.raised # "none"
           THEN /\ img' = img
                /\ out' = CellOut("load", param, <<>>, r.raised, <<>>, <<>>, <<>>)
           ELSE IF t.raised # "none"
           THEN /\ img' = t.value
                /\ out' = CellOut("load", param, <<>>, t.raised, <<>>, <<>>, <<>>)
           ELSE /\ img' = t.value
                /\ out' = CellOut("load", param, <<>>, shown.raised, <<>>, <<>>, shown.figure)
        /\ UNCHANGED <<fs, pages, arg, ret>>

\* display_tesseract_results(img, level) in a cell of its own
DisplayTesseractCell(level, answers) ==
    /\ IF img.kind = "unbound"
       THEN /\ out' = CellOut("display_tesseract", level, answers, "NameError", <<>>, <<>>, <<>>)
            /\ img' = img
       ELSE LET d == display_tesseract_results(<<img>>, tesseract_modes, answers, 1) IN
            /\ out' = CellOut("display_tesseract", level, answers, d.raised, d.calls,
                              d.printed, d.figure)
            /\ img' = d.heap[1]
    /\ UNCHANGED <<fs, pages, arg, ret>>

\* a pages cell that keeps the results of the calls that succeeded
PagesCell_partial(a1, a2) ==
    /\ img.kind # "unbound"
    /\ LET r1 == google_text_detection(<<img>>, 1, a1)
           r2 == google_document_text_detection(<<img>>, 1, a2)
           ok == SelectSeq(<< [name |-> "Google Text Detection", page |-> r1.page, r |-> r1.raised],
                              [name |-> "Google Document Text Detection", page |-> r2.page, r |-> r2.raised] >>,
                           LAMBDA e : e.r = "none")
       IN  /\ pages' = List([i \in 1..Len(ok) |-> [name |-> ok[i].name, page |-> ok[i].page]])
           /\ out' = CellOut("pages", "", <<a1, a2>>, "none",
                             <<"google_text_detection", "google_document_text_detection">>,
                             <<>>, <<>>)
    /\ UNCHANGED <<fs, img, arg, ret>>

\* the cell pages = [(name, google_text_detection(img)), (name, google_document_text_detection(img))]
PagesCell(a1, a2) ==
    /\ IF img.kind = "unbound"
       THEN /\ out' = CellOut("pages", "", <<a1, a2>>, "NameError", <<>>, <<>>, <<>>)
            /\ pages' = pages
       ELSE LET r1 == google_text_detection(<<img>>, 1, a1)
                r2 == google_document_text_detection(<<img>>, 1, a2)
            IN  IF r1.raised # "none"
                THEN /\ out' = CellOut("pages", "", <<a1, a2>>, r1.raised,
                                       <<"google_text_detection">>, <<>>, <<>>)
                     /\ pages' = pages
                ELSE IF r2.raised # "none"
                THEN /\ out' = CellOut("pages", "", <<a1, a2>>, r2.raised,
                                       <<"google_text_detection", "google_document_text_detection">>,
                                       <<>>, <<>>)
                     /\ pages' = pages
                ELSE /\ out' = CellOut("pages", "", <<a1, a2>>, "none",
                                       <<"google_text_detection", "google_document_text_detection">>,
                                       <<>>, <<>>)
                     /\ pages' = List(<< [name |-> "Google Text Detection", page |-> r1.page],
                                         [name |-> "Google Document Text Detection", page |-> r2.page] >>)
    /\ UNCHANGED <<fs, img, arg, ret>>

\* a display that empties each page as it walks it
DisplayGoogleCell_consuming(func) ==
    /\ pages.kind = "list" /\ img.kind # "unbound"
    /\ LET d == display_google_results(<<img>>, pages.items, 1, func) IN
       /\ out' = CellOut("display_google", func, <<>>, d.raised, d.calls, d.printed, d.figure)
       /\ img' = d.heap[1]
       /\ pages' = List([i \in 1..Len(pages.items) |->
                            [pages.items[i] EXCEPT !.page = Page(<<>>)]])
    /\ UNCHANGED <<fs, arg, ret>>

\* display_google_results(pages, img, func) in a cell of its own
DisplayGoogleCell(func) ==
    /\ IF pages.kind = "unbound" \/ img.kind = "unbound"
       THEN /\ out' = CellOut("display_google", func, <<>>, "NameError", <<>>, <<>>, <<>>)
            /\ img' = img
       ELSE LET d == display_google_results(<<img>>, pages.items, 1, func) IN
            /\ out' = CellOut("display_google", func, <<>>, d.raised, d.calls, d.printed, d.figure)
            /\ img' = d.heap[1]
    /\ UNCHANGED <<fs, pages, arg, ret>>

NoArg == [fn |-> "none"]
NoRet == [fn |-> "none"]

\* the notebook after its imports and definitions: nothing loaded yet
Init ==
    /\ fs = FsWith(SamplePx)
    /\ img = Unbound
    /\ pages = Unbound
    /\ out = NoOut
    /\ arg = NoArg
    /\ ret = NoRet

Load == \E t \in BOOLEAN, uri \in URIs : LoadCell(t, uri)
DisplayTesseract ==
    \E level \in Levels, answers \in [1..Len(tesseract_modes) -> TessAnswers] :
        DisplayTesseractCell(level, answers)
BuildPages == \E a1 \in GoogleAnswers, a2 \in GoogleAnswers : PagesCell(a1, a2)
DisplayGoogle == \E func \in GoogleFuncs : DisplayGoogleCell(func)

\* the user runs the cells in any order, any number of times
Next == Load \/ DisplayTesseract \/ BuildPages \/ DisplayGoogle

Spec == Init /\ [][Next]_vars

\* ------------------------------------------------- calls of single functions

NonEmptySeqsUpTo(S, n) == SeqsUpTo(S, n) \ {<<>>}

\* the image a function is called with: the only object of the heap, an
\* image or None
Heaps == {<<Ndarray(SamplePx)>>, <<None>>}

PageInputs ==
    {Page(bs) : bs \in SeqsUpTo(SampleBlocks, MaxBlocks)}
    \cup {OneWordPage(ss) : ss \in NonEmptySeqsUpTo(Symbols, MaxSyms)}

NamedPages ==
    [name : {"Google Text Detection", "Google Document Text Detection"}, page : SamplePages]

ModeSet == {tesseract_modes[i] : i \in 1..Len(tesseract_modes)}

FunInputs ==
    {[fn |-> "get_symbol_text", symbol |-> x] : x \in Symbols}
    \cup {[fn |-> "get_word_text", word |-> Word(ss, Box(1, 30))] :
            ss \in SeqsUpTo(Symbols, MaxSyms)}
    \cup {[fn |-> "get_paragraph_text", para |-> Paragraph(ws, Box(1, 20))] :
            ws \in SeqsUpTo(SampleWords, MaxWords)}
    \cup {[fn |-> "get_block_text", block |-> Block(ps, Box(1, 10))] :
            ps \in SeqsUpTo(SampleParas, MaxParas)}
    \cup [fn : GoogleFuncs, page : PageInputs, heap : Heaps]
    \cup [fn : {"display_google_results"}, pgs : SeqsUpTo(NamedPages, MaxCfg),
          func : GoogleFuncs, heap : Heaps]
    \cup UNION {[fn : {"display_tesseract_results"}, modes : {ms},
                 answers : [1..Len(ms) -> TessAnswers], heap : Heaps] :
                ms \in SeqsUpTo(ModeSet, MaxCfg)}
    \cup {[fn |-> "imread_wrapper", uri |-> u] : u \in URIs}

InitFun ==
    /\ arg \in FunInputs
    /\ ret = NoRet
    /\ fs = FsWith(SamplePx)
    /\ img = Unbound
    /\ pages = Unbound
    /\ out = NoOut

Returns(fn, val) ==
    /\ arg.fn = fn
    /\ ret = NoRet
    /\ ret' = [fn |-> fn, val |-> val]
    /\ UNCHANGED <<fs, img, pages, out, arg>>

CallGetSymbolText == Returns("get_symbol_text", get_symbol_text(arg.symbol))
CallGetWordText == Returns("get_word_text", get_word_text(arg.word))
CallGetParagraphText == Returns("get_paragraph_text", get_paragraph_text(arg.para))
CallGetBlockText == Returns("get_block_text", get_block_text(arg.block))
CallGetGoogleWords == Returns("get_google_words", get_google_words(arg.heap, arg.page, 1))
CallGetGoogleParagraphs ==
    Returns("get_google_paragraphs", get_google_paragraphs(arg.heap, arg.page, 1))
CallGetGoogleBlocks == Returns("get_google_blocks", get_google_blocks(arg.heap, arg.page, 1))
CallDisplayGoogleResults ==
    Returns("display_google_results", display_google_results(arg.heap, arg.pgs, 1, arg.func))
CallDisplayTesseractResults ==
    Returns("display_tesseract_results",
            display_tesseract_results(arg.heap, arg.modes, arg.answers, 1))
CallImreadWrapper == Returns("imread_wrapper", imread_wrapper(fs, arg.uri))

NextFun ==
    \/ CallGetSymbolText
    \/ CallGetWordText
    \/ CallGetParagraphText
    \/ CallGetBlockText
    \/ CallGetGoogleWords
    \/ CallGetGoogleParagraphs
    \/ CallGetGoogleBlocks
    \/ CallDisplayGoogleResults
    \/ CallDisplayTesseractResults
    \/ CallImreadWrapper

\* one call of one function of the notebook on one input
SpecFun == InitFun /\ [][NextFun]_vars

\* ------------------------------------------- the load cell on varied images

Channel == {0, 200}
Pixels == {<<b, g, r>> : b \in Channel, g \in Channel, r \in Channel}

InitPre ==
    /\ fs \in {FsWith(px) : px \in NonEmptySeqsUpTo(Pixels, MaxPix)}
    /\ img = Unbound
    /\ pages = Unbound
    /\ out = NoOut
    /\ arg = NoArg
    /\ ret = NoRet

\* the load cell, run and rerun, over an image of any pixels
SpecPre == InitPre /\ [][Load]_vars

\* ================================================================ properties

\* the nodes of a page at the level a traversal works on, in document order
ParagraphsOf(page) == Flatten(Map(LAMBDA b : b.paragraphs, page.blocks))
WordsOf(page) == Flatten(Map(LAMBDA p : p.words, ParagraphsOf(page)))
NodesAt(page, func) ==
    CASE func = "get_google_blocks" -> page.blocks
      [] func = "get_google_paragraphs" -> ParagraphsOf(page)
      [] func = "get_google_words" -> WordsOf(page)

\* the symbols below a node, in document order
SymbolsOfPara(para) == Flatten(Map(LAMBDA w : w.symbols, para.words))
SymbolsOfBlock(block) == Flatten(Map(SymbolsOfPara, block.paragraphs))
SymbolsBelow(func, node) ==
    CASE func = "get_google_blocks" -> SymbolsOfBlock(node)
      [] func = "get_google_paragraphs" -> SymbolsOfPara(node)
      [] func = "get_google_words" -> node.symbols

\* the texts of a sequence of symbols, one after the other
SymbolTexts(symbols) == Join(Map(get_symbol_text, symbols))

\* the shape add_bounding_box draws for a node, and cv2.rectangle for a
\* node of the local engine
Polyline(node) ==
    LET v == node.bounding_box.vertices
    IN  [shape |-> "polylines", pts |-> [j \in 1..Len(v) |-> <<v[j].x, v[j].y>>]]
Rectangle(node) ==
    [shape |-> "rectangle", pts |-> << <<node.bb[1], node.bb[2]>>, <<node.bb[3], node.bb[4]>> >>]

\* ---- C1
\* C1: the reconstructed text of a word, a paragraph and a block is the
\* concatenation, in document order, of get_symbol_text over all the symbols
\* below it: nothing is added or dropped at a level boundary.
C1_TextIsConcatenationOfSymbols ==
    /\ ret.fn = "get_word_text" => ret.val = SymbolTexts(arg.word.symbols)
    /\ ret.fn = "get_paragraph_text" => ret.val = SymbolTexts(SymbolsOfPara(arg.para))
    /\ ret.fn = "get_block_text" => ret.val = SymbolTexts(SymbolsOfBlock(arg.block))

\* a block of two paragraphs of several words each has been reconstructed
C1_Witness ==
    /\ ret.fn = "get_block_text"
    /\ arg.block.paragraphs = <<P1, P2>>
    /\ ret.val = <<"a", "b", " ", "b", " ", "a", "a", "b", " ">>

\* ---- C2
\* C2: get_symbol_text returns the symbol's text followed by one newline
\* when the detected break is a line break, by one space when it is a simple
\* space, and by nothing when no detected break is set.
C2_BreakCharacterFollowsFlag ==
    ret.fn = "get_symbol_text" =>
        LET property == arg.symbol.property
            text == arg.symbol.text
        IN  /\ (property.has_detected_break /\ property.detected_break.type = BreakType.LINE_BREAK)
                  => ret.val = text \o <<"\n">>
            /\ (property.has_detected_break /\ property.detected_break.type = BreakType.SPACE)
                  => ret.val = text \o <<" ">>
            /\ ~property.has_detected_break => ret.val = text

\* ---- C3
\* C3: imread_wrapper returns a decoded image or raises: for a locator
\* nothing readable lies behind, or whose bytes are no image, it raises, and
\* it never returns a value that is no image.
C3_ImageOrError ==
    ret.fn = "imread_wrapper" =>
        /\ ret.val.raised = "none" => ret.val.value.kind = "ndarray"
        /\ fs[arg.uri].state # "image" => ret.val.raised # "none"

\* ---- C4
\* C4: for a non-empty list of configurations, a list of one included, the
\* display function handles every configuration once, in list order: its
\* name and texts are printed and its image is rendered on its own axis.
C4_EveryConfigurationDisplayedOnce ==
    /\ (/\ ret.fn = "display_google_results"
        /\ Len(arg.pgs) >= 1
        /\ arg.heap[1].kind = "ndarray")
          => /\ ret.val.raised = "none"
             /\ Len(ret.val.printed) = Len(arg.pgs)
             /\ Len(ret.val.figure) = Len(arg.pgs)
             /\ \A i \in 1..Len(arg.pgs) :
                    /\ ret.val.printed[i].name = arg.pgs[i].name
                    /\ ret.val.figure[i].title = arg.pgs[i].name
    /\ (/\ ret.fn = "display_tesseract_results"
        /\ Len(arg.modes) >= 1
        /\ arg.heap[1].kind = "ndarray"
        /\ \A i \in 1..Len(arg.modes) : arg.answers[i].ok)
          => /\ ret.val.raised = "none"
             /\ Len(ret.val.printed) = Len(arg.modes)
             /\ Len(ret.val.figure) = Len(arg.modes)
             /\ \A i \in 1..Len(arg.modes) :
                    /\ ret.val.printed[i].name = arg.modes[i].name
                    /\ ret.val.figure[i].title = arg.modes[i].name

\* ---- C5
\* what each axis of the last display shows: the pixels of img and the
\* shapes of that configuration's own nodes at the level displayed
OwnShapesOnly ==
    \A i \in 1..Len(out.figure) :
        /\ out.figure[i].image.px = img.px
        /\ out.cell = "display_google" =>
              out.figure[i].image.shapes =
                  Map(Polyline, NodesAt(pages.items[i].page, out.param))
        /\ out.cell = "display_tesseract" =>
              out.figure[i].image.shapes = Map(Rectangle, out.answers[i].nodes)

C5_Step ==
    out'.cell \in {"display_google", "display_tesseract"} =>
        /\ img' = img
        /\ OwnShapesOnly'

\* C5: a display call leaves the caller's img as it was, pixels and all, and
\* the image rendered for a configuration carries the shapes of its own nodes
\* at the chosen level and no others.
C5_InputImageUntouched == [][C5_Step]_vars

\* both cloud pages have been displayed, each with its own shapes, and img
\* carries none
C5_Witness ==
    /\ out.cell = "display_google"
    /\ out.raised = "none"
    /\ Len(out.figure) = 2
    /\ out.figure[1].image.shapes # <<>>
    /\ out.figure[2].image.shapes # <<>>
    /\ out.figure[1].image.shapes # out.figure[2].image.shapes
    /\ img.kind = "ndarray" /\ img.shapes = <<>>

\* ---- C6
\* C6: a traversal returns one text and draws one shape for every node of
\* the page at its level, in document order: as many texts as nodes, as many
\* shapes as nodes, the i-th text and the i-th shape those of the i-th node;
\* and so do the tokens and rectangles of display_tesseract_results.
C6_OneTextAndShapePerNode ==
    /\ (ret.fn \in GoogleFuncs /\ ret.val.raised = "none") =>
          LET nodes == NodesAt(arg.page, ret.fn)
              drawn == ret.val.heap[ret.val._img].shapes
          IN  /\ Len(ret.val.texts) = Len(nodes)
              /\ Len(drawn) = Len(nodes)
              /\ \A i \in 1..Len(nodes) :
                    /\ ret.val.texts[i] = SymbolTexts(SymbolsBelow(ret.fn, nodes[i]))
                    /\ drawn[i] = Polyline(nodes[i])
    /\ ret.fn = "display_tesseract_results" =>
          \A i \in 1..Len(ret.val.printed) :
              LET nodes == arg.answers[i].nodes
                  drawn == ret.val.figure[i].image.shapes
              IN  /\ Len(ret.val.printed[i].texts) = Len(nodes)
                  /\ Len(drawn) = Len(nodes)
                  /\ \A k \in 1..Len(nodes) :
                        /\ ret.val.printed[i].texts[k] = nodes[k].text
                        /\ drawn[k] = Rectangle(nodes[k])

\* the paragraphs of a page of two blocks, three paragraphs in all, one of
\* them empty, have been traversed
C6_Witness ==
    /\ ret.fn = "get_google_paragraphs"
    /\ arg.page.blocks = <<B3, B2>>
    /\ ret.val.raised = "none"
    /\ Len(ret.val.texts) = 3
    /\ ret.val.texts[2] = <<>>

\* ---- C7
\* the cells that call an engine, after a failure: the calls made are the
\* first ones of the list, each once, the last of them the one that failed,
\* and nothing was printed for it or for a later one
StopsAtFailure ==
    /\ (out.cell = "pages" /\ out.raised \notin {"none", "NameError"}) =>
          LET k == Len(out.calls)
          IN  /\ k \in 1..2
              /\ out.calls = SubSeq(<<"google_text_detection", "google_document_text_detection">>, 1, k)
              /\ img.kind # "ndarray" \/ out.answers[k].reply # "page"
              /\ \A j \in 1..(k - 1) : out.answers[j].reply = "page"
    /\ (out.cell = "display_tesseract" /\ out.raised \notin {"none", "NameError"}) =>
          LET k == Len(out.calls)
          IN  /\ k \in 1..Len(tesseract_modes)
              /\ \A j \in 1..k : out.calls[j] = tesseract_modes[j].name
              /\ img.kind # "ndarray" \/ ~out.answers[k].ok
              /\ Len(out.printed) = k - 1
              /\ Len(out.figure) = k - 1
    /\ (out.cell = "display_tesseract" /\ out.raised = "none") =>
          /\ Len(out.calls) = Len(tesseract_modes)
          /\ Len(out.printed) = Len(tesseract_modes)

\* pages is bound to nothing or to the list of both results
PagesWhole ==
    pages.kind = "list" =>
        /\ Len(pages.items) = 2
        /\ pages.items[1].name = "Google Text Detection"
        /\ pages.items[2].name = "Google Document Text Detection"

C7_Step ==
    /\ (out'.cell = "pages" /\ out'.raised # "none") => pages' = pages
    /\ (out'.cell = "pages" /\ out'.raised = "none") =>
          /\ \A j \in 1..2 : out'.answers[j].reply = "page"
          /\ pages' = List(<< [name |-> "Google Text Detection", page |-> out'.answers[1].page],
                              [name |-> "Google Document Text Detection", page |-> out'.answers[2].page] >>)
    /\ StopsAtFailure'
    /\ PagesWhole'

\* C7: a failing recognition call ends the cell: it is not retried, nothing
\* is substituted for it, no later configuration is processed, and pages is
\* bound only when both detection calls succeeded.
C7_FailureAbortsCell == [][C7_Step]_vars

\* the first detection call succeeded, the second failed, and pages is
\* still unbound
C7_Witness ==
    /\ out.cell = "pages"
    /\ out.raised = "GoogleAPICallError"
    /\ out.answers[1].reply = "page"
    /\ Len(out.calls) = 2
    /\ pages.kind = "unbound"

\* ---- C8
\* C8: the load cell yields a 3-channel image whether or not thresholding
\* ran: with the toggle on every pixel has three equal channels, all 0 or all
\* 255, and 255 exactly when its gray value is above Otsu's threshold; with
\* the toggle off the image is the decoded one.
C8_PreprocessingKeepsThreeChannels ==
    (out.cell = "load" /\ out.raised = "none") =>
        LET orig == fs[out.param.uri].px
            gray == cv2_cvtColor_BGR2GRAY(orig)
            t == otsu_threshold(gray)
        IN  /\ img.kind = "ndarray"
            /\ Len(img.px) = Len(orig)
            /\ \A i \in 1..Len(img.px) : Len(img.px[i]) = 3
            /\ out.param.toggle =>
                  \A i \in 1..Len(img.px) :
                      /\ img.px[i][1] = img.px[i][2] /\ img.px[i][2] = img.px[i][3]
                      /\ img.px[i][1] \in {0, 255}
                      /\ img.px[i][1] = 255 <=> gray[i][1] > t
            /\ ~out.param.toggle => img.px = orig

\* an image has been thresholded into a black and a white pixel
C8_Witness ==
    /\ out.cell = "load" /\ out.raised = "none" /\ out.param.toggle
    /\ img.px = << <<0, 0, 0>>, <<255, 255, 255>> >>
    /\ fs[out.param.uri].px = << <<200, 0, 0>>, <<0, 200, 200>> >>

\* ---- C9
\* a page that shows one word: one block of one paragraph of one word, the
\* break, if any, on its last symbol
IsOneWordPage(page) ==
    /\ Len(page.blocks) = 1
    /\ Len(page.blocks[1].paragraphs) = 1
    /\ Len(page.blocks[1].paragraphs[1].words) = 1
    /\ LET symbols == page.blocks[1].paragraphs[1].words[1].symbols
       IN  /\ Len(symbols) >= 1
           /\ \A i \in 1..(Len(symbols) - 1) : ~symbols[i].property.has_detected_break

TheWord(page) == page.blocks[1].paragraphs[1].words[1]

\* the string the symbols of the word spell
GroundTruth(page) == Join(Map(LAMBDA x : x.text, TheWord(page).symbols))

OneWordTraversed ==
    /\ ret.fn \in GoogleFuncs
    /\ ret.val.raised = "none"
    /\ IsOneWordPage(arg.page)

\* C9 (as stated): on a page of one word every traversal returns one node
\* whose text is the ground-truth string, whatever the break on the last
\* symbol.
C9_OneWordTextIsGroundTruth ==
    OneWordTraversed =>
        /\ Len(ret.val.texts) = 1
        /\ ret.val.texts[1] = GroundTruth(arg.page)

\* C9 (amended): on a page of one word every traversal returns one node;
\* its text is the ground-truth string when the last symbol has no detected
\* break, and the ground-truth string followed by one space or newline when
\* it has one.
C9_OneWordTextIsGroundTruthPlusBreak ==
    OneWordTraversed =>
        LET truth == GroundTruth(arg.page)
            symbols == TheWord(arg.page).symbols
            text == ret.val.texts[1]
        IN  /\ Len(ret.val.texts) = 1
            /\ IF symbols[Len(symbols)].property.has_detected_break
               THEN /\ Len(text) = Len(truth) + 1
                    /\ SubSeq(text, 1, Len(truth)) = truth
                    /\ text[Len(text)] \in {" ", "\n"}
               ELSE text = truth

\* a word of two symbols with a break on the second has been traversed
C9_Witness ==
    /\ OneWordTraversed
    /\ ret.fn = "get_google_blocks"
    /\ Len(TheWord(arg.page).symbols) = 2
    /\ TheWord(arg.page).symbols[2].property.has_detected_break
    /\ ret.val.texts = << <<"a", "b", " ">> >>

\* ---- C10
\* what display_google_results prints for a list of pages at a level
PrintedFor(items, func) ==
    [i \in 1..Len(items) |->
        [name |-> items[i].name,
         texts |-> Map(LAMBDA n : SymbolTexts(SymbolsBelow(func, n)),
                       NodesAt(items[i].page, func))]]

C10_Step ==
    out'.cell = "display_google" =>
        /\ pages' = pages
        /\ out'.raised = "none" => out'.printed = PrintedFor(pages.items, out'.param)

\* C10: a display of the cloud results changes nothing of pages, and what it
\* prints is determined by pages and the level alone, so that the displays
\* can be repeated in any order with the same texts every time.
C10_PagesReadOnly == [][C10_Step]_vars

\* the pages have been displayed by word and are what they were
C10_Witness ==
    /\ out.cell = "display_google"
    /\ out.param = "get_google_words"
    /\ out.raised = "none"
    /\ pages.kind = "list"
    /\ pages.items[1].page = Page(<<B3, B2>>)
    /\ Len(out.printed[1].texts) = 5

====
